---- MODULE Spec2Model ----
(***************************************************************************)
(* Model of the sales ETL pipeline: transform.transform_data (catalog      *)
(* split, referential reconciliation, dimension building, fact renaming,   *)
(* type casting) and main.run_pipeline (extract, transform, ordered load   *)
(* through load.load_to_sql).                                              *)
(*                                                                         *)
(* Cells are records [k, n]:                                               *)
(*   k = "int"     the integer n                                           *)
(*   k = "flt"     the non-integral float n + 0.5 (integral floats compare *)
(*                 and hash equal to the integer and are written "int")    *)
(*   k = "numstr"  the text str(n), e.g. "7"                               *)
(*   k = "decstr"  the text of n + 0.5, e.g. "2.5"                         *)
(*   k = "txt"     other text: n = 0 is the literal "ID", n = 1 is junk    *)
(*   k = "nan"     NaN / empty cell                                        *)
(*   k = "datestr" text holding the instant n (in half days)               *)
(*   k = "ts"      Timestamp at instant n (in half days)                   *)
(*   k = "date"    datetime.date of day n                                  *)
(*   k = "nat"     NaT                                                     *)
(* Names and descriptions are plain strings.                               *)
(***************************************************************************)
EXTENDS Integers, Sequences, FiniteSets, TLC

VARIABLES
    pc,                    \* position of the run
    df_clientes,           \* input: clients table (sequence of records)
    df_transacciones,      \* input: transactions table [cols, rows]; also the fact table
    df_varios,             \* input: mixed catalog table (sequence of <<cell, name>>)
    df_recomendados,       \* input: recommendations table (sequence of records)
    df_sedes,              \* local of transform_data: [cols, rows]
    df_tipos,              \* local of transform_data: [cols, rows]
    df_dist,               \* local of transform_data: [cols, rows]
    df_clientes_final,     \* local of transform_data: sequence of records
    data_warehouse_tables, \* run_pipeline: the returned mapping, << >> while None
    err,                   \* exception raised and the function it left, NoError if none
    loadIdx,               \* run_pipeline: position in ordered_load
    success_count,         \* run_pipeline: success_count
    loadCalls,             \* table names handed to load_to_sql, in call order
    db,                    \* destination: table name -> sequence of primary keys
    outcome,               \* final log line of run_pipeline, "none" while running
    exitCode               \* process exit status, -1 while running

vars == <<pc, df_clientes, df_transacciones, df_varios, df_recomendados,
          df_sedes, df_tipos, df_dist, df_clientes_final,
          data_warehouse_tables, err, loadIdx, success_count, loadCalls,
          db, outcome, exitCode>>

inputVars == <<df_clientes, df_varios, df_recomendados>>
localVars == <<df_sedes, df_tipos, df_dist, df_clientes_final>>
loadVars == <<loadIdx, success_count, loadCalls, db, outcome>>

(***************************************************************************)
(* Bounds                                                                  *)
(***************************************************************************)
MaxVarios == 4
MaxTrx == 2
MaxClientes == 2
MaxRecs == 2
MaxBatch == 2
MaxLoads == 3

(***************************************************************************)
(* Cells                                                                   *)
(***************************************************************************)
Int_(n) == [k |-> "int", n |-> n]
Flt(n) == [k |-> "flt", n |-> n]
NumStr(n) == [k |-> "numstr", n |-> n]
DecStr(n) == [k |-> "decstr", n |-> n]
ID == [k |-> "txt", n |-> 0]
Junk == [k |-> "txt", n |-> 1]
NaN == [k |-> "nan", n |-> 0]
DateStr(n) == [k |-> "datestr", n |-> n]
Ts(n) == [k |-> "ts", n |-> n]
Date(n) == [k |-> "date", n |-> n]
NaT == [k |-> "nat", n |-> 0]

\* pd.notna / dropna
NotNa(v) == v.k \notin {"nan", "nat"}

\* pd.to_numeric(..., errors='coerce').notnull()
ToNumericNotNull(v) == v.k \in {"int", "flt", "numstr", "decstr"}

\* whether int(v) / astype(int) accepts the value
CanInt(v) == v.k \in {"int", "flt", "numstr"}

\* astype(int): int() of the object, truncating floats toward zero
AsInt(v) ==
    IF v.k = "flt" THEN Int_(IF v.n >= 0 THEN v.n ELSE v.n + 1)
    ELSE Int_(v.n)

\* ToDatetime parsing text and timestamps only: a datetime.date becomes NaT
ToDatetimeTextOnly(v) ==
    CASE v.k = "ts" -> v
      [] v.k = "datestr" -> Ts(v.n)
      [] OTHER -> NaT

\* pd.to_datetime(..., errors='coerce')
ToDatetime(v) ==
    CASE v.k = "ts" -> v
      [] v.k = "datestr" -> Ts(v.n)
      [] v.k = "date" -> Ts(2 * v.n)
      [] OTHER -> NaT

\* .dt.date
DtDate(v) == IF v.k = "ts" THEN Date(v.n \div 2) ELSE NaT

(***************************************************************************)
(* Sequence helpers                                                        *)
(***************************************************************************)
Range(s) == {s[i] : i \in DOMAIN s}

\* iloc[a:b] on positions 0..Len-1 (b exclusive), as Python slices clip
ILoc(s, a, b) ==
    LET lo == IF a < 0 THEN 0 ELSE a
        hi == IF b > Len(s) THEN Len(s) ELSE b
    IN  IF hi <= lo THEN << >> ELSE SubSeq(s, lo + 1, hi)

\* Series.unique(): distinct values in order of first appearance
RECURSIVE Unique(_)
Unique(s) ==
    IF s = << >> THEN << >>
    ELSE LET front == Unique(SubSeq(s, 1, Len(s) - 1))
             last == s[Len(s)]
         IN  IF last \in Range(front) THEN front ELSE Append(front, last)

\* the 0-based positions, ascending, of the rows whose first cell is 'ID'
RECURSIVE SentinelIdx(_)
SentinelIdx(s) ==
    IF s = << >> THEN << >>
    ELSE LET front == SentinelIdx(SubSeq(s, 1, Len(s) - 1))
         IN  IF s[Len(s)][1] = ID THEN Append(front, Len(s) - 1) ELSE front

(***************************************************************************)
(* Column names                                                            *)
(***************************************************************************)
SedesCols == <<"id_sede", "nombre_sede">>
TiposCols == <<"id_tipo_trx", "descripcion_tipo">>
DistCols == <<"id_distribuidor", "nombre_distribuidor">>
RawCols == <<"0", "1">>
FactCols == <<"id_cliente", "fecha_trx", "id_tipo_trx", "id_trx", "monto", "fee", "id_sede">>
SourceTrxCols == <<"IDCLIENTE", "FECHA", "IDTIPOTRX", "IDTRX", "MONTO", "FEE", "IDSEDE">>
DummyDesc == "Tipo Desconocido (Sistema)"

Table(cols, rows) == [cols |-> cols, rows |-> rows]
HasCol(t, c) == c \in Range(t.cols)

(***************************************************************************)
(* 1. Mixed file: the two catalogs                                         *)
(***************************************************************************)
SplitSedes(varios) ==
    LET split_search == SentinelIdx(varios)
    IN  IF Len(split_search) > 1
        THEN Table(SedesCols, ILoc(varios, 1, split_search[2]))
        ELSE IF Len(split_search) = 1
        THEN IF split_search[1] = 0
             THEN Table(SedesCols, ILoc(varios, 1, Len(varios)))
             ELSE Table(RawCols, ILoc(varios, 0, split_search[1]))
        ELSE Table(SedesCols, << >>)

\* SplitTipos cutting at the second 'ID' row without skipping it
SplitTiposKeepHeader(varios) ==
    LET split_search == SentinelIdx(varios)
    IN  IF Len(split_search) > 1
        THEN Table(TiposCols, ILoc(varios, split_search[2], Len(varios)))
        ELSE IF Len(split_search) = 1
        THEN IF split_search[1] = 0
             THEN Table(TiposCols, << >>)
             ELSE Table(RawCols, ILoc(varios, split_search[1] + 1, Len(varios)))
        ELSE Table(TiposCols, << >>)

SplitTipos(varios) ==
    LET split_search == SentinelIdx(varios)
    IN  IF Len(split_search) > 1
        THEN Table(TiposCols, ILoc(varios, split_search[2] + 1, Len(varios)))
        ELSE IF Len(split_search) = 1
        THEN IF split_search[1] = 0
             THEN Table(TiposCols, << >>)
             ELSE Table(RawCols, ILoc(varios, split_search[1] + 1, Len(varios)))
        ELSE Table(TiposCols, << >>)

(***************************************************************************)
(* 2. Referential integrity: orphan transaction-type ids                   *)
(***************************************************************************)
\* df_transacciones.iloc[:, 2].unique()
TrxIds(trx) == Unique([i \in DOMAIN trx.rows |-> trx.rows[i][3]])

\* dropna(subset=[key]) then the to_numeric(...).notnull() filter, key in column 1
NumericRows(rows) ==
    SelectSeq(SelectSeq(rows, LAMBDA r : NotNa(r[1])),
              LAMBDA r : ToNumericNotNull(r[1]))

\* the column assignment  df[key] = df[key].astype(int)
CastKey(rows) == [i \in DOMAIN rows |-> <<AsInt(rows[i][1]), rows[i][2]>>]

\* astype(int) raises ValueError on some surviving key
CastKeyFails(rows) == \E i \in DOMAIN rows : ~CanInt(rows[i][1])

CleanTipos(tipos) == CastKey(NumericRows(tipos.rows))

\* MissingIds without the pd.notna test
MissingIdsWithNull(trx_ids, catalog_ids) ==
    SelectSeq(trx_ids, LAMBDA x : x \notin catalog_ids)

\* [x for x in trx_ids if x not in catalog_ids and pd.notna(x)]
MissingIds(trx_ids, catalog_ids) ==
    SelectSeq(trx_ids, LAMBDA x : x \notin catalog_ids /\ NotNa(x))

ReconcileTipos(tipos, trx) ==
    LET clean == CleanTipos(tipos)
        catalog_ids == {clean[i][1] : i \in DOMAIN clean}
        missing_ids == MissingIds(TrxIds(trx), catalog_ids)
        df_missing == [i \in DOMAIN missing_ids |-> <<missing_ids[i], DummyDesc>>]
    IN  Table(tipos.cols, clean \o df_missing)

(***************************************************************************)
(* 3. Distributors dimension                                               *)
(***************************************************************************)
\* DropDuplicates keeping the last row of each id (keep='last')
RECURSIVE DropDuplicatesKeepLast(_)
DropDuplicatesKeepLast(recs) ==
    IF recs = << >> THEN << >>
    ELSE LET back == DropDuplicatesKeepLast(SubSeq(recs, 2, Len(recs)))
             first == recs[1]
         IN  IF \E i \in DOMAIN back : back[i].IDDISTRIBUIDOR = first.IDDISTRIBUIDOR
             THEN back
             ELSE <<first>> \o back

\* drop_duplicates(subset=['IDDISTRIBUIDOR']): keep the first row of each id
RECURSIVE DropDuplicates(_)
DropDuplicates(recs) ==
    IF recs = << >> THEN << >>
    ELSE LET front == DropDuplicates(SubSeq(recs, 1, Len(recs) - 1))
             last == recs[Len(recs)]
         IN  IF \E i \in DOMAIN front : front[i].IDDISTRIBUIDOR = last.IDDISTRIBUIDOR
             THEN front
             ELSE Append(front, last)

BuildDist(recs) ==
    LET kept == DropDuplicates(recs)
    IN  Table(DistCols,
              [i \in DOMAIN kept |-> <<kept[i].IDDISTRIBUIDOR, kept[i].NOMBRE_DISTRIBUIDOR>>])

(***************************************************************************)
(* 4. Clients dimension                                                    *)
(***************************************************************************)
ClientesCols == <<"id_cliente", "fecha_afiliacion", "fecha_primera_trx",
                  "id_distribuidor", "telefono", "categoria", "recomendados">>

\* one output row of the left merge, after the drop and the renames
Joined(c, r) ==
    [id_cliente |-> c.IDCLIENTE,
     fecha_afiliacion |-> c.fechaafiliacion,
     fecha_primera_trx |-> c.fechaprimertrx,
     id_distribuidor |-> r.IDDISTRIBUIDOR,
     telefono |-> r.TELEFONO,
     categoria |-> r.categoria,
     recomendados |-> r.recomendados]

NoMatch ==
    [IDCLIENTE |-> NaN, IDDISTRIBUIDOR |-> NaN, NOMBRE_DISTRIBUIDOR |-> "",
     TELEFONO |-> NaN, categoria |-> NaN, recomendados |-> NaN]

\* the rows of the right table matching one left row, in right order
Matches(c, recs) == SelectSeq(recs, LAMBDA r : r.IDCLIENTE = c.IDCLIENTE)

\* LeftMerge as an inner join (how='inner'): unmatched left rows are lost
RECURSIVE InnerMerge(_, _)
InnerMerge(clientes, recs) ==
    IF clientes = << >> THEN << >>
    ELSE LET c == clientes[Len(clientes)]
             m == Matches(c, recs)
         IN  InnerMerge(SubSeq(clientes, 1, Len(clientes) - 1), recs)
                \o [i \in DOMAIN m |-> Joined(c, m[i])]

\* pd.merge(..., how='left'): left order kept, one row per match, one row if none
RECURSIVE LeftMerge(_, _)
LeftMerge(clientes, recs) ==
    IF clientes = << >> THEN << >>
    ELSE LET c == clientes[Len(clientes)]
             m == Matches(c, recs)
             rows == IF m = << >> THEN <<Joined(c, NoMatch)>>
                     ELSE [i \in DOMAIN m |-> Joined(c, m[i])]
         IN  LeftMerge(SubSeq(clientes, 1, Len(clientes) - 1), recs) \o rows

BuildClientes(clientes, recs) == Table(ClientesCols, LeftMerge(clientes, recs))

(***************************************************************************)
(* 6. Type casting                                                         *)
(***************************************************************************)
CastClientes(t) ==
    Table(t.cols,
          [i \in DOMAIN t.rows |->
              [t.rows[i] EXCEPT
                 !.fecha_afiliacion = DtDate(ToDatetime(@)),
                 !.fecha_primera_trx = DtDate(ToDatetime(@))]])

CastFechaTrx(t) ==
    Table(t.cols, [i \in DOMAIN t.rows |-> [t.rows[i] EXCEPT ![2] = ToDatetime(@)]])

CastSedes(t) == Table(t.cols, CastKey(NumericRows(t.rows)))
CastSedesFails(t) == CastKeyFails(NumericRows(t.rows))

CastFact(t) ==
    Table(t.cols, [i \in DOMAIN t.rows |-> [t.rows[i] EXCEPT ![3] = AsInt(@)]])
\* line 124: astype(int) raises on a null or on a code int() rejects
CastFactFails(t) == \E i \in DOMAIN t.rows : ~CanInt(t.rows[i][3])

(***************************************************************************)
(* Inputs                                                                  *)
(***************************************************************************)
Names == <<"n1", "n2", "n3", "n4", "n5", "n6", "n7", "n8">>

SeqsUpTo(S, n) == UNION {[1..m -> S] : m \in 0..n}

\* first cells of the mixed sheet
VariosCells == {ID, Int_(1), Int_(2), NumStr(3), Flt(1), DecStr(2), Junk, NaN}

\* a mixed sheet from its first column; the second column names the row
VariosOf(cells) == [i \in DOMAIN cells |-> <<cells[i], Names[i]>>]

\* transaction-type codes of the transactions sheet
TrxCodes == {Int_(1), Int_(3), NumStr(3), Flt(2), Junk, NaN}

\* instants of the date columns
DateCells == {DateStr(3), Ts(5), Junk, NaN}

TrxRow(i, fecha, code) ==
    <<Int_(1), fecha, code, Int_(100 + i), Int_(50), Int_(2), Int_(1)>>

\* a transactions sheet from its type codes
TrxOf(codes) ==
    Table(SourceTrxCols, [i \in DOMAIN codes |-> TrxRow(i, Ts(5), codes[i])])

\* a transactions sheet from its dates
TrxOfFechas(fechas) ==
    Table(SourceTrxCols, [i \in DOMAIN fechas |-> TrxRow(i, fechas[i], Int_(1))])

ClienteIds == {Int_(1), Int_(2)}
ClienteFechas == {<<DateStr(3), Ts(5)>>, <<Ts(4), Junk>>, <<NaN, DateStr(2)>>}
ClienteRows ==
    {[IDCLIENTE |-> c, fechaafiliacion |-> f[1], fechaprimertrx |-> f[2]] :
        c \in ClienteIds, f \in ClienteFechas}

DistIds == {Int_(7), Int_(8)}
RecKeys == ClienteIds \X DistIds
RecsOf(keys) ==
    [i \in DOMAIN keys |->
        [IDCLIENTE |-> keys[i][1], IDDISTRIBUIDOR |-> keys[i][2],
         NOMBRE_DISTRIBUIDOR |-> Names[i], TELEFONO |-> NumStr(500 + i),
         categoria |-> Junk, recomendados |-> Int_(i)]]

\* the sheets used where a family of inputs does not vary them
SampleVarios ==
    {VariosOf(<<ID, Int_(1), ID, Int_(1), Int_(2)>>),
     VariosOf(<<ID, Int_(1), ID>>),
     VariosOf(<<Int_(1), ID, Int_(3)>>),
     VariosOf(<< >>)}
SampleTrx == {TrxOf(<<Int_(1), Int_(3)>>), TrxOf(<<NumStr(3), Int_(1)>>), TrxOf(<< >>)}
SampleClientes ==
    <<[IDCLIENTE |-> Int_(1), fechaafiliacion |-> DateStr(3), fechaprimertrx |-> Junk]>>
SampleRecs == RecsOf(<<<<Int_(1), Int_(7)>>>>)

None == << >>
NoError == [type |-> "none", in |-> "none"]
\* ordered_load with the fact table first
TableNamesFactFirst ==
    <<"fct_transacciones", "dim_sedes", "dim_tipo_transaccion", "dim_distribuidores",
      "dim_clientes">>

\* ordered_load, lines 72-80
TableNames ==
    <<"dim_sedes", "dim_tipo_transaccion", "dim_distribuidores", "dim_clientes",
      "fct_transacciones">>
EmptyDb == [t \in Range(TableNames) |-> << >>]
NoTable == Table(<< >>, << >>)

\* the catalogs family: every mixed sheet against sample transactions, and
\* every sequence of type codes against sample mixed sheets
InputsCatalog ==
    /\ \/ /\ \E cells \in SeqsUpTo(VariosCells, MaxVarios) : df_varios = VariosOf(cells)
          /\ df_transacciones \in SampleTrx
       \/ /\ df_varios \in SampleVarios
          /\ \E codes \in SeqsUpTo(TrxCodes, MaxTrx) : df_transacciones = TrxOf(codes)
    /\ df_clientes = SampleClientes
    /\ df_recomendados = SampleRecs

\* the dimensions family: every clients and recommendations table and every
\* sequence of transaction dates, against one mixed sheet
InputsDims ==
    /\ df_varios = VariosOf(<<ID, Int_(1), ID, Int_(1), Int_(2)>>)
    /\ \E fechas \in SeqsUpTo(DateCells, 1) : df_transacciones = TrxOfFechas(fechas)
    /\ df_clientes \in SeqsUpTo(ClienteRows, MaxClientes)
    /\ \E keys \in SeqsUpTo(RecKeys, MaxRecs) : df_recomendados = RecsOf(keys)

InitRest ==
    /\ pc = "split"
    /\ df_sedes = NoTable
    /\ df_tipos = NoTable
    /\ df_dist = NoTable
    /\ df_clientes_final = NoTable
    /\ data_warehouse_tables = None
    /\ err = NoError
    /\ loadIdx = 0
    /\ success_count = 0
    /\ loadCalls = << >>
    /\ db = EmptyDb
    /\ outcome = "none"
    /\ exitCode = -1

(***************************************************************************)
(* transform_data, stage by stage                                          *)
(***************************************************************************)
\* the exception leaves the function named by `fn` (transform_data logs it and
\* raises it again, lines 136-139)
Raise(e, fn) ==
    /\ pc' = "raised"
    /\ err' = [type |-> e, in |-> fn]

\* lines 23-55
Split ==
    /\ pc = "split"
    /\ df_sedes' = SplitSedes(df_varios)
    /\ df_tipos' = SplitTipos(df_varios)
    /\ pc' = "reconcile"
    /\ UNCHANGED <<inputVars, df_transacciones, df_dist, df_clientes_final,
                   data_warehouse_tables, err, loadVars, exitCode>>

\* lines 58-76
Reconcile ==
    /\ pc = "reconcile"
    /\ HasCol(df_tipos, "id_tipo_trx")
    /\ ~CastKeyFails(NumericRows(df_tipos.rows))
    /\ df_tipos' = ReconcileTipos(df_tipos, df_transacciones)
    /\ pc' = "dims"
    /\ UNCHANGED <<inputVars, df_transacciones, df_sedes, df_dist, df_clientes_final,
                   data_warehouse_tables, err, loadVars, exitCode>>

\* line 61: dropna(subset=['id_tipo_trx']) on a table without that column
ReconcileKeyError ==
    /\ pc = "reconcile"
    /\ ~HasCol(df_tipos, "id_tipo_trx")
    /\ Raise("KeyError", "transform_data")
    /\ UNCHANGED <<inputVars, df_transacciones, localVars,
                   data_warehouse_tables, loadVars, exitCode>>

\* lines 61-64: lines 61 and 63 rebind df_tipos to the filtered table, then
\* astype(int) raises on a code that to_numeric accepted and int() rejects
ReconcileValueError ==
    /\ pc = "reconcile"
    /\ HasCol(df_tipos, "id_tipo_trx")
    /\ CastKeyFails(NumericRows(df_tipos.rows))
    /\ df_tipos' = Table(df_tipos.cols, NumericRows(df_tipos.rows))
    /\ Raise("ValueError", "transform_data")
    /\ UNCHANGED <<inputVars, df_transacciones, df_sedes, df_dist, df_clientes_final,
                   data_warehouse_tables, loadVars, exitCode>>

\* lines 79-106
BuildDims ==
    /\ pc = "dims"
    /\ df_dist' = BuildDist(df_recomendados)
    /\ df_clientes_final' = BuildClientes(df_clientes, df_recomendados)
    /\ pc' = "fact"
    /\ UNCHANGED <<inputVars, df_transacciones, df_sedes, df_tipos,
                   data_warehouse_tables, err, loadVars, exitCode>>

\* lines 109-111: the caller's table is renamed in place
RenameFact ==
    /\ pc = "fact"
    /\ df_transacciones' = Table(FactCols, df_transacciones.rows)
    /\ pc' = "cast"
    /\ UNCHANGED <<inputVars, localVars, data_warehouse_tables, err, loadVars, exitCode>>

Mapping ==
    [t \in Range(TableNames) |->
        CASE t = "dim_sedes" -> CastSedes(df_sedes)
          [] t = "dim_tipo_transaccion" -> df_tipos
          [] t = "dim_distribuidores" -> df_dist
          [] t = "dim_clientes" -> CastClientes(df_clientes_final)
          [] t = "fct_transacciones" -> CastFact(CastFechaTrx(df_transacciones))]

\* lines 114-134: the casts succeed and the mapping is returned
TypeCast ==
    /\ pc = "cast"
    /\ ~CastSedesFails(df_sedes)
    /\ ~CastFactFails(df_transacciones)
    /\ df_clientes_final' = CastClientes(df_clientes_final)
    /\ df_transacciones' = CastFact(CastFechaTrx(df_transacciones))
    /\ df_sedes' = CastSedes(df_sedes)
    /\ data_warehouse_tables' = Mapping
    /\ pc' = "returned"
    /\ UNCHANGED <<inputVars, df_tipos, df_dist, err, loadVars, exitCode>>

\* lines 114-122: the site-id cast raises after the date casts
TypeCastSedesError ==
    /\ pc = "cast"
    /\ CastSedesFails(df_sedes)
    /\ df_clientes_final' = CastClientes(df_clientes_final)
    /\ df_transacciones' = CastFechaTrx(df_transacciones)
    /\ df_sedes' = Table(df_sedes.cols, NumericRows(df_sedes.rows))
    /\ Raise("ValueError", "transform_data")
    /\ UNCHANGED <<inputVars, df_tipos, df_dist, data_warehouse_tables, loadVars, exitCode>>

\* TypeCastFactError with the exception logged and not raised again: the
\* tables built so far are returned
TypeCastFactErrorSwallowed ==
    /\ pc = "cast"
    /\ ~CastSedesFails(df_sedes)
    /\ CastFactFails(df_transacciones)
    /\ df_clientes_final' = CastClientes(df_clientes_final)
    /\ df_transacciones' = CastFechaTrx(df_transacciones)
    /\ df_sedes' = CastSedes(df_sedes)
    /\ err' = [type |-> "ValueError", in |-> "transform_data"]
    /\ data_warehouse_tables' =
         [Mapping EXCEPT !["fct_transacciones"] = CastFechaTrx(df_transacciones)]
    /\ pc' = "returned"
    /\ UNCHANGED <<inputVars, df_tipos, df_dist, loadVars, exitCode>>

\* lines 114-124: the fact type-code cast raises after the other casts
TypeCastFactError ==
    /\ pc = "cast"
    /\ ~CastSedesFails(df_sedes)
    /\ CastFactFails(df_transacciones)
    /\ df_clientes_final' = CastClientes(df_clientes_final)
    /\ df_transacciones' = CastFechaTrx(df_transacciones)
    /\ df_sedes' = CastSedes(df_sedes)
    /\ Raise("ValueError", "transform_data")
    /\ UNCHANGED <<inputVars, df_tipos, df_dist, data_warehouse_tables, loadVars, exitCode>>

NextTransform ==
    \/ Split
    \/ Reconcile
    \/ ReconcileKeyError
    \/ ReconcileValueError
    \/ BuildDims
    \/ RenameFact
    \/ TypeCast
    \/ TypeCastSedesError
    \/ TypeCastFactError

\* transform_data called on the inputs
Init ==
    /\ InputsCatalog \/ InputsDims
    /\ InitRest

Spec == Init /\ [][NextTransform]_vars

(***************************************************************************)
(* load.load_to_sql                                                        *)
(***************************************************************************)
\* pk_map: the primary key of a row of each table
PkOf(t, row) ==
    CASE t = "dim_clientes" -> row.id_cliente
      [] t = "fct_transacciones" -> row[4]
      [] OTHER -> row[1]

\* get_existing_ids: the keys in the destination, the empty set when the
\* query raises
ExistingIds(t, readOk) == IF readOk THEN Range(db[t]) ELSE {}

\* df[~df[pk_col].isin(existing_ids)]
NewRows(t, df, existing_ids) ==
    SelectSeq(df.rows, LAMBDA r : PkOf(t, r) \notin existing_ids)

\* the destination after df_new.to_sql(..., if_exists='append')
Appended(t, df_new) ==
    [db EXCEPT ![t] = @ \o [i \in DOMAIN df_new |-> PkOf(t, df_new[i])]]

\* the value load_to_sql returns: False when the insert of new rows raises
\* (lines 64-68), True after an insert and when nothing is new (lines 56-62)
LoadReturns(t, df, readOk, writeOk) ==
    ~(Len(NewRows(t, df, ExistingIds(t, readOk))) > 0 /\ ~writeOk)

\* the destination after load_to_sql
DbAfterLoad(t, df, readOk, writeOk) ==
    IF LoadReturns(t, df, readOk, writeOk)
    THEN Appended(t, NewRows(t, df, ExistingIds(t, readOk)))
    ELSE db

(***************************************************************************)
(* main.run_pipeline                                                       *)
(***************************************************************************)
\* lines 36-48: the four tables are extracted
Extract ==
    /\ pc = "extract"
    /\ pc' = "split"
    /\ UNCHANGED <<inputVars, df_transacciones, localVars, data_warehouse_tables,
                   err, loadVars, exitCode>>

\* lines 40-48: no credentials, or extract_data returned None
ExtractError ==
    /\ pc = "extract"
    /\ Raise("ValueError", "run_pipeline")
    /\ UNCHANGED <<inputVars, df_transacciones, localVars, data_warehouse_tables,
                   loadVars, exitCode>>

\* lines 60-68: the mapping is not empty and the engine is created
CreateEngine ==
    /\ pc = "returned"
    /\ data_warehouse_tables # None
    /\ pc' = "load"
    /\ loadIdx' = 1
    /\ UNCHANGED <<inputVars, df_transacciones, localVars, data_warehouse_tables,
                   err, success_count, loadCalls, db, outcome, exitCode>>

\* lines 65-68: no engine
EngineError ==
    /\ pc = "returned"
    /\ Raise("ConnectionError", "run_pipeline")
    /\ UNCHANGED <<inputVars, df_transacciones, localVars, data_warehouse_tables,
                   loadVars, exitCode>>

\* lines 83-87 with load_to_sql: a non-empty table is handed to the loader,
\* which inserts the rows whose key it did not find and returns True, or
\* catches the insert's exception and returns False
LoadTable ==
    /\ pc = "load"
    /\ loadIdx \in DOMAIN TableNames
    /\ LET t == TableNames[loadIdx]
           df == data_warehouse_tables[t]
       IN  /\ df.rows # << >>
           /\ loadCalls' = Append(loadCalls, t)
           /\ \E readOk \in BOOLEAN, writeOk \in BOOLEAN :
                /\ db' = DbAfterLoad(t, df, readOk, writeOk)
                /\ success_count' =
                     IF LoadReturns(t, df, readOk, writeOk)
                     THEN success_count + 1 ELSE success_count
    /\ loadIdx' = loadIdx + 1
    /\ UNCHANGED <<pc, inputVars, df_transacciones, localVars, data_warehouse_tables,
                   err, outcome, exitCode>>

\* lines 88-89: an empty table is skipped
SkipEmpty ==
    /\ pc = "load"
    /\ loadIdx \in DOMAIN TableNames
    /\ data_warehouse_tables[TableNames[loadIdx]].rows = << >>
    /\ loadIdx' = loadIdx + 1
    /\ UNCHANGED <<pc, inputVars, df_transacciones, localVars, data_warehouse_tables,
                   err, success_count, loadCalls, db, outcome, exitCode>>

\* Finish comparing success_count with the number of tables attempted
FinishCountsAttempted ==
    /\ pc = "load"
    /\ loadIdx = Len(TableNames) + 1
    /\ outcome' = IF success_count = Len(loadCalls) THEN "success" ELSE "warnings"
    /\ pc' = "done"
    /\ exitCode' = 0
    /\ UNCHANGED <<inputVars, df_transacciones, localVars, data_warehouse_tables,
                   err, loadIdx, success_count, loadCalls, db>>

\* lines 91-94
Finish ==
    /\ pc = "load"
    /\ loadIdx = Len(TableNames) + 1
    /\ outcome' = IF success_count = Len(TableNames) THEN "success" ELSE "warnings"
    /\ pc' = "done"
    /\ exitCode' = 0
    /\ UNCHANGED <<inputVars, df_transacciones, localVars, data_warehouse_tables,
                   err, loadIdx, success_count, loadCalls, db>>

\* lines 96-98: any exception ends the process with status 1
PipelineExcept ==
    /\ pc = "raised"
    /\ outcome' = "failed"
    /\ pc' = "exit"
    /\ exitCode' = 1
    /\ UNCHANGED <<inputVars, df_transacciones, localVars, data_warehouse_tables,
                   err, loadIdx, success_count, loadCalls, db>>

Next ==
    \/ Extract
    \/ ExtractError
    \/ NextTransform
    \/ CreateEngine
    \/ EngineError
    \/ LoadTable
    \/ SkipEmpty
    \/ Finish
    \/ PipelineExcept

\* the sheets extract_data can hand over: a sheet read with header=None has
\* its two columns only when it has a row, and the JSON frame has its columns
\* only when it has a record
PipelineVarios ==
    (SampleVarios \ {VariosOf(<< >>)}) \cup
    {VariosOf(<<Int_(1), Int_(2)>>),
     VariosOf(<<ID, DecStr(2), ID, Int_(1)>>), VariosOf(<<ID, Int_(1), ID, DecStr(2)>>)}
PipelineTrx == SampleTrx \cup {TrxOf(<<Int_(1), NaN>>)}

\* a destination that already holds rows of an earlier run
PriorDb ==
    [EmptyDb EXCEPT !["dim_sedes"] = <<Int_(1)>>,
                    !["dim_tipo_transaccion"] = <<Int_(1)>>,
                    !["fct_transacciones"] = <<Int_(101)>>]

\* run_pipeline started on extracted sheets and a destination
InitPipeline ==
    /\ df_varios \in PipelineVarios
    /\ df_transacciones \in PipelineTrx
    /\ df_clientes \in SeqsUpTo(ClienteRows, 1)
    /\ \E key \in RecKeys : df_recomendados = RecsOf(<<key>>)
    /\ pc = "extract"
    /\ df_sedes = NoTable
    /\ df_tipos = NoTable
    /\ df_dist = NoTable
    /\ df_clientes_final = NoTable
    /\ data_warehouse_tables = None
    /\ err = NoError
    /\ loadIdx = 0
    /\ success_count = 0
    /\ loadCalls = << >>
    /\ db \in {EmptyDb, PriorDb}
    /\ outcome = "none"
    /\ exitCode = -1

SpecPipeline == InitPipeline /\ [][Next]_vars

(***************************************************************************)
(* load.load_to_sql called on one table with any batches                   *)
(***************************************************************************)
LoadKeys == {Int_(1), Int_(2)}

\* a batch for dim_sedes from its keys
BatchOf(keys) == Table(SedesCols, [i \in DOMAIN keys |-> <<keys[i], Names[i]>>])

\* lines 20-68: one call of load_to_sql(df, 'dim_sedes', engine)
LoadToSql ==
    /\ pc = "loader"
    /\ Len(loadCalls) < MaxLoads
    /\ \E keys \in SeqsUpTo(LoadKeys, MaxBatch), readOk \in BOOLEAN, writeOk \in BOOLEAN :
         LET df == BatchOf(keys)
         IN  /\ db' = DbAfterLoad("dim_sedes", df, readOk, writeOk)
             /\ success_count' =
                  IF LoadReturns("dim_sedes", df, readOk, writeOk)
                  THEN success_count + 1 ELSE success_count
    /\ loadCalls' = Append(loadCalls, "dim_sedes")
    /\ UNCHANGED <<pc, inputVars, df_transacciones, localVars, data_warehouse_tables,
                   err, loadIdx, outcome, exitCode>>

NextLoad == LoadToSql

\* a destination table with distinct primary keys
InitLoad ==
    /\ pc = "loader"
    /\ db \in {[EmptyDb EXCEPT !["dim_sedes"] = held] :
                 held \in {<< >>, <<Int_(1)>>, <<Int_(2)>>, <<Int_(1), Int_(2)>>,
                           <<Int_(2), Int_(1)>>}}
    /\ df_varios = << >>
    /\ df_transacciones = Table(SourceTrxCols, << >>)
    /\ df_clientes = << >>
    /\ df_recomendados = << >>
    /\ df_sedes = NoTable
    /\ df_tipos = NoTable
    /\ df_dist = NoTable
    /\ df_clientes_final = NoTable
    /\ data_warehouse_tables = None
    /\ err = NoError
    /\ loadIdx = 0
    /\ success_count = 0
    /\ loadCalls = << >>
    /\ outcome = "none"
    /\ exitCode = -1

SpecLoad == InitLoad /\ [][NextLoad]_vars

(***************************************************************************)
(* Properties                                                              *)
(***************************************************************************)
Returned == pc = "returned" /\ data_warehouse_tables # None
SentinelCount == Len(SentinelIdx(df_varios))
Count(s, P(_)) == Cardinality({i \in DOMAIN s : P(s[i])})

\* C1: whenever transform_data returns a mapping, every id_tipo_trx value of
\* fct_transacciones is the id_tipo_trx of some row of dim_tipo_transaccion,
\* the values compared as the two output tables hold them.
C1_FactCodesInCatalog ==
    Returned =>
        LET fct == data_warehouse_tables["fct_transacciones"].rows
            dim == data_warehouse_tables["dim_tipo_transaccion"].rows
        IN  \A i \in DOMAIN fct : \E j \in DOMAIN dim : dim[j][1] = fct[i][3]

\* C2: with exactly two 'ID' rows, the first at row 0 and the second at row s,
\* the split gives sites = rows 1..s-1 and types = rows s+1..end in source
\* order; every other row is in exactly one of the two tables, once, and
\* neither 'ID' row is in either table.
C2_TwoSentinelSplit ==
    (pc = "reconcile" /\ SentinelCount = 2 /\ SentinelIdx(df_varios)[1] = 0) =>
        LET s == SentinelIdx(df_varios)[2]
            n == Len(df_varios)
            sites == df_sedes.rows
            types == df_tipos.rows
        IN  /\ Len(sites) = s - 1
            /\ \A r \in 1..(s - 1) : sites[r] = df_varios[r + 1]
            /\ Len(types) = n - s - 1
            /\ \A r \in (s + 1)..(n - 1) : types[r - s] = df_varios[r + 1]
            /\ \A i \in DOMAIN df_varios :
                 LET here(row) == row = df_varios[i]
                 IN  Count(sites, here) + Count(types, here)
                        = IF df_varios[i][1] = ID THEN 0 ELSE 1

C2_Witness ==
    /\ pc = "reconcile"
    /\ SentinelIdx(df_varios) = <<0, 2>>
    /\ Len(df_varios) = 4
    /\ df_sedes.rows = <<df_varios[2]>>
    /\ df_tipos.rows = <<df_varios[4]>>

\* the mixed sheet holds only 'ID' rows and integer ids, and every transaction
\* type code is an integer
CleanInputs ==
    /\ \A i \in DOMAIN df_varios : df_varios[i][1].k = "int" \/ df_varios[i][1] = ID
    /\ \A i \in DOMAIN df_transacciones.rows : df_transacciones.rows[i][3].k = "int"

\* C3: a mixed sheet with zero, one or more than two 'ID' rows is never fatal:
\* with otherwise valid inputs transform_data raises nothing and returns the
\* mapping with dim_sedes and dim_tipo_transaccion under their canonical columns.
C3_MalformedLayoutNeverFatal ==
    (SentinelCount # 2 /\ CleanInputs) =>
        /\ pc # "raised"
        /\ Returned =>
             /\ data_warehouse_tables["dim_sedes"].cols = SedesCols
             /\ data_warehouse_tables["dim_tipo_transaccion"].cols = TiposCols

\* C4: with exactly one 'ID' row, at row 0 the sites are all rows after it and
\* the types are empty; at row k > 0 the sites are the rows before k and the
\* types the rows after k; in both cases the two tables carry the canonical
\* columns (id_sede, nombre_sede) and (id_tipo_trx, descripcion_tipo).
C4_SingleSentinelFallback ==
    (pc = "reconcile" /\ SentinelCount = 1) =>
        LET k == SentinelIdx(df_varios)[1]
            n == Len(df_varios)
        IN  /\ df_sedes.cols = SedesCols
            /\ df_tipos.cols = TiposCols
            /\ IF k = 0
               THEN /\ df_sedes.rows = [r \in 1..(n - 1) |-> df_varios[r + 1]]
                    /\ df_tipos.rows = << >>
               ELSE /\ df_sedes.rows = [r \in 1..k |-> df_varios[r]]
                    /\ df_tipos.rows = [r \in 1..(n - k - 1) |-> df_varios[k + 1 + r]]

DummyDescInSpec == "Unknown type (system-generated)"

\* the valid rows of the split catalog, their codes as integers
OriginalTipos == CleanTipos(SplitTipos(df_varios))
OriginalCodes == {OriginalTipos[i][1] : i \in DOMAIN OriginalTipos}
ReferencedCodes == Range([i \in DOMAIN df_transacciones.rows |-> df_transacciones.rows[i][3]])
MissingCodes == {x \in ReferencedCodes : NotNa(x) /\ x \notin OriginalCodes}
FirstUse(x) ==
    CHOOSE i \in DOMAIN df_transacciones.rows :
        /\ df_transacciones.rows[i][3] = x
        /\ \A j \in 1..(i - 1) : df_transacciones.rows[j][3] # x

\* the reconciled catalog is the valid rows in their order, then one row per
\* missing code, in order of first use, described by `desc`
OnlyAppends(desc) ==
    LET new == df_tipos.rows
        n == Len(OriginalTipos)
    IN  /\ Len(new) = n + Cardinality(MissingCodes)
        /\ \A i \in 1..n : new[i] = OriginalTipos[i]
        /\ {new[i][1] : i \in (n + 1)..Len(new)} = MissingCodes
        /\ \A i \in (n + 1)..Len(new) : new[i][2] = desc
        /\ \A i, j \in (n + 1)..Len(new) :
             i < j => FirstUse(new[i][1]) < FirstUse(new[j][1])
        /\ MissingCodes = {} => new = OriginalTipos

\* C5 (as stated): reconciliation only appends: the resulting types table is
\* the valid catalog rows in their order followed by one row per distinct
\* referenced code missing from the catalog, in order of first occurrence in
\* the transactions, each described "Unknown type (system-generated)".
C5_AppendsUnknownType == pc = "dims" => OnlyAppends(DummyDescInSpec)

\* C5 (amended): reconciliation only appends: the resulting types table is the
\* valid catalog rows in their order followed by one row per distinct non-null
\* referenced code missing from the catalog, in order of first occurrence in
\* the transactions, each described "Tipo Desconocido (Sistema)"; with no code
\* missing the catalog is unchanged.
C5_AppendsTipoDesconocido == pc = "dims" => OnlyAppends("Tipo Desconocido (Sistema)")

C5_Witness ==
    /\ pc = "dims"
    /\ Len(OriginalTipos) = 2
    /\ Cardinality(MissingCodes) = 2
    /\ Len(df_tipos.rows) = 4
    /\ df_tipos.rows[3] = <<df_transacciones.rows[1][3], DummyDesc>>
    /\ df_tipos.rows[4] = <<df_transacciones.rows[2][3], DummyDesc>>

DimsBuilt == pc \in {"fact", "cast", "returned"}

\* C6: dim_distribuidores has exactly one row per distinct distributor id of
\* the recommendations (no two rows share an id_distribuidor), and the row
\* kept for an id is the first one of that id in source order.
C6_DistribuidoresUnique ==
    DimsBuilt =>
        LET d == df_dist.rows
            src == df_recomendados
        IN  /\ \A i, j \in DOMAIN d : d[i][1] = d[j][1] => i = j
            /\ {d[i][1] : i \in DOMAIN d} = {src[i].IDDISTRIBUIDOR : i \in DOMAIN src}
            /\ \A i \in DOMAIN d :
                 \E p \in DOMAIN src :
                    /\ src[p].IDDISTRIBUIDOR = d[i][1]
                    /\ src[p].NOMBRE_DISTRIBUIDOR = d[i][2]
                    /\ \A q \in 1..(p - 1) : src[q].IDDISTRIBUIDOR # d[i][1]

C6_Witness ==
    /\ DimsBuilt
    /\ Len(df_recomendados) = 2
    /\ df_recomendados[1].IDDISTRIBUIDOR = df_recomendados[2].IDDISTRIBUIDOR
    /\ df_dist.rows = <<<<df_recomendados[1].IDDISTRIBUIDOR, "n1">>>>

MatchCount(id) == Count(df_recomendados, LAMBDA r : r.IDCLIENTE = id)

\* C7: dim_clientes holds, for each input client row, max(1, k) rows, k being
\* the number of recommendation rows with that client id: as many rows as the
\* input when every client has at most one match, one row with a null
\* id_distribuidor for a client without a match, two rows for two matches.
C7_ClientesRowCount ==
    DimsBuilt =>
        LET out == df_clientes_final.rows
            ids == {df_clientes[i].IDCLIENTE : i \in DOMAIN df_clientes}
            times(id) == IF MatchCount(id) = 0 THEN 1 ELSE MatchCount(id)
        IN  /\ \A i \in DOMAIN out : out[i].id_cliente \in ids
            /\ \A id \in ids :
                 Count(out, LAMBDA r : r.id_cliente = id)
                    = Count(df_clientes, LAMBDA c : c.IDCLIENTE = id) * times(id)
            /\ \A i \in DOMAIN out :
                 MatchCount(out[i].id_cliente) = 0 => out[i].id_distribuidor = NaN
            /\ (\A id \in ids : MatchCount(id) <= 1) => Len(out) = Len(df_clientes)

C7_Witness ==
    /\ DimsBuilt
    /\ Len(df_clientes) = 2
    /\ MatchCount(df_clientes[1].IDCLIENTE) = 2
    /\ MatchCount(df_clientes[2].IDCLIENTE) = 0
    /\ Len(df_clientes_final.rows) = 3
    /\ df_clientes_final.rows[3].id_distribuidor = NaN

\* C8: the type casting is idempotent: applied again to the tables it has
\* cast, it raises nothing, drops no row and leaves every table unchanged.
C8_TypeCastIdempotent ==
    Returned =>
        /\ ~CastSedesFails(df_sedes)
        /\ ~CastFactFails(df_transacciones)
        /\ CastSedes(df_sedes) = df_sedes
        /\ CastClientes(df_clientes_final) = df_clientes_final
        /\ CastFact(CastFechaTrx(df_transacciones)) = df_transacciones

C8_Witness ==
    /\ Returned
    /\ Len(SplitSedes(df_varios).rows) = 2
    /\ SplitSedes(df_varios).rows[1][1] = NumStr(3)
    /\ df_sedes.rows = <<<<Int_(3), "n2">>>>
    /\ \E i \in DOMAIN df_clientes_final.rows :
         /\ df_clientes_final.rows[i].fecha_afiliacion.k = "date"
         /\ df_clientes_final.rows[i].fecha_primera_trx = NaT
    /\ \E i \in DOMAIN df_transacciones.rows : df_transacciones.rows[i][2].k = "ts"

\* C9: the transform is all-or-nothing: when a stage of transform_data raises,
\* the exception reaches the caller, no mapping is returned, and run_pipeline
\* makes no load_to_sql call in that run and exits with status 1.
C9_AllOrNothing ==
    err.in = "transform_data" =>
        /\ pc \in {"raised", "exit"}
        /\ data_warehouse_tables = None
        /\ loadCalls = << >>
        /\ success_count = 0
        /\ db \in {EmptyDb, PriorDb}
        /\ pc = "exit" => exitCode = 1

C9_Witness ==
    /\ pc = "exit"
    /\ err = [type |-> "ValueError", in |-> "transform_data"]
    /\ df_tipos.rows # << >>
    /\ df_dist.rows # << >>
    /\ df_clientes_final.rows # << >>
    /\ df_transacciones.cols = FactCols
    /\ loadCalls = << >>

CanonicalPos(t) ==
    CASE t = "dim_sedes" -> 1
      [] t = "dim_tipo_transaccion" -> 2
      [] t = "dim_distribuidores" -> 3
      [] t = "dim_clientes" -> 4
      [] t = "fct_transacciones" -> 5

\* C10: tables reach load_to_sql in the order dim_sedes, dim_tipo_transaccion,
\* dim_distribuidores, dim_clientes, fct_transacciones: the fact table is
\* never loaded before every dimension was loaded or skipped as empty, and
\* dim_clientes never before dim_distribuidores.
C10_CanonicalLoadOrder ==
    /\ \A i, j \in DOMAIN loadCalls :
         i < j => CanonicalPos(loadCalls[i]) < CanonicalPos(loadCalls[j])
    /\ \A i \in DOMAIN loadCalls :
         loadCalls[i] = "fct_transacciones" =>
            \A d \in {"dim_sedes", "dim_tipo_transaccion", "dim_distribuidores",
                      "dim_clientes"} :
               \/ \E j \in 1..(i - 1) : loadCalls[j] = d
               \/ data_warehouse_tables[d].rows = << >>

C10_Witness ==
    /\ pc = "done"
    /\ loadCalls = <<"dim_sedes", "dim_tipo_transaccion", "dim_distribuidores",
                     "dim_clientes", "fct_transacciones">>

CallerTables == <<df_clientes, df_transacciones, df_varios, df_recomendados>>
InTransform == pc \in {"split", "reconcile", "dims", "fact", "cast"}

\* C11: transform_data leaves its four input tables as the caller holds them:
\* no step of a call, returning or raising, changes the column names, the
\* values or the rows of clients, transactions, mixed catalog or
\* recommendations.
C11_InputsUntouched ==
    [][InTransform => UNCHANGED CallerTables]_vars

TrxCodesOf(t) == [i \in DOMAIN t.rows |-> t.rows[i][3]]
TrxKeysOf(t) == [i \in DOMAIN t.rows |-> t.rows[i][4]]
BadCode == \E i \in DOMAIN df_transacciones.rows : ~CanInt(df_transacciones.rows[i][3])

\* a step of transform_data on transactions whose bad codes are the ones
\* reconciliation gives no catalog row to when their kind is in `skipped`
FactCastStep(skipped) ==
    InTransform =>
        /\ pc # "cast" => TrxCodesOf(df_transacciones') = TrxCodesOf(df_transacciones)
        /\ (pc = "reconcile" /\ pc' = "dims") =>
              \A i \in DOMAIN df_tipos'.rows : df_tipos'.rows[i][1].k \notin skipped
        /\ BadCode =>
              /\ pc' # "returned"
              /\ data_warehouse_tables' = None
              /\ TrxCodesOf(df_transacciones') = TrxCodesOf(df_transacciones)
              /\ pc = "cast" => (pc' = "raised" /\ err'.in = "transform_data")
        /\ (pc = "cast" /\ ~BadCode) =>
              \/ /\ pc' = "returned"
                 /\ TrxKeysOf(df_transacciones') = TrxKeysOf(df_transacciones)
                 /\ TrxKeysOf(data_warehouse_tables'["fct_transacciones"])
                       = TrxKeysOf(df_transacciones)
              \/ /\ pc' = "raised"
                 /\ \E i \in DOMAIN df_sedes'.rows : ~CanInt(df_sedes'.rows[i][1])

\* C12: a transaction row whose type code is null or not
\* integer-coercible is neither dropped nor repaired: reconciliation gives it
\* no placeholder, the integer cast of the fact column fails, transform_data
\* raises and returns no tables; when every code is integer-coercible the fact
\* cast never fails and fct_transacciones keeps every input row.
C12_BadCodeSkippedThenFatal == [][FactCastStep({"nan", "nat", "txt", "decstr"})]_vars

\* C13: from a destination table with distinct primary keys, after any
\* sequence of load_to_sql calls on it (any batches, a batch with one key
\* twice, a batch loaded twice) the destination never holds two rows with the
\* same primary key: each call inserts only rows whose key was absent.
C13_NoDuplicateKeys ==
    \A t \in DOMAIN db :
        \A i, j \in DOMAIN db[t] : db[t][i] = db[t][j] => i = j

AllTables ==
    {"dim_sedes", "dim_tipo_transaccion", "dim_distribuidores", "dim_clientes",
     "fct_transacciones"}
NonEmptyTables == {t \in AllTables : data_warehouse_tables[t].rows # << >>}

\* C14: in the load loop a load that returns False or an empty table never
\* stops the later tables from being attempted, and the run is reported fully
\* successful exactly when all five tables were non-empty and every
\* load_to_sql call returned True; otherwise it ends "with warnings",
\* reporting the number of calls that returned True.
C14_LoadLoopOutcome ==
    /\ pc \in {"load", "done"} =>
         /\ err = NoError
         /\ success_count <= Len(loadCalls)
         /\ Range(loadCalls) = {t \in NonEmptyTables : CanonicalPos(t) < loadIdx}
         /\ Len(loadCalls) = Cardinality(Range(loadCalls))
    /\ pc = "done" =>
         /\ Range(loadCalls) = NonEmptyTables
         /\ exitCode = 0
         /\ outcome \in {"success", "warnings"}
         /\ outcome = "success" <=>
               (NonEmptyTables = AllTables /\ success_count = Len(loadCalls))
    /\ outcome \in {"success", "warnings"} => pc = "done"

C14_Witness ==
    /\ pc = "done"
    /\ outcome = "warnings"
    /\ Len(loadCalls) = 5
    /\ success_count = 4
    /\ db["dim_sedes"] = << >>
    /\ db["fct_transacciones"] # << >>

====
